---------------------------- MODULE Spec2Model ----------------------------
(***************************************************************************)
(* A model of the TechSoC-25 exercises:                                    *)
(*   Problem_Statement_1/Ceaser_Cipher.cpp  the Caesar encoder/decoder     *)
(*   Problem_Statement_1/Level2.cpp         the brute-force breaker        *)
(*   Problem_Statement_1/level3.cpp         the same breaker, with strlen  *)
(*   Problem_Statement_0/CALCULATOR.cpp     the calculator and its library *)
(*                                                                         *)
(* Characters are their ASCII codes.  A double is a decimal fixed-point    *)
(* number of 16 fractional digits, kept as sign and magnitude, the         *)
(* magnitude a little-endian sequence of base-10^4 limbs (TLC's integers   *)
(* are 32 bits wide, the thresholds 1e-12 and the products of the series   *)
(* are not).  Arithmetic truncates toward zero at 1e-16.                   *)
(***************************************************************************)
EXTENDS Integers, Sequences, FiniteSets, Bags, TLC

VARIABLES
    \* Ceaser_Cipher.cpp, and the user who feeds its output back to it
    sv, ip, op, epc, run, typed, orig,
    \* Level2.cpp / level3.cpp
    cipher, len, shift, bestShift, bestScore, bestText, bpc, prog, tried,
    plain, encShift,
    \* CALCULATOR.cpp: main's position and variables, what the current
    \* request has printed and the value it showed
    mpc, choice, num1, num2, result, out, shown,
    \* the library calls in progress (innermost last), the value the last
    \* one returned, and the calls the current request has finished
    stack, ret, log,
    \* at the prompt, whether the request before it printed anything but a
    \* result
    back

encVars == <<sv, ip, op, epc, run, typed, orig>>
brkVars == <<cipher, len, shift, bestShift, bestScore, bestText, bpc, prog,
             tried, plain, encShift>>
calcVars == <<mpc, choice, num1, num2, result, out, shown, stack, ret, log,
              back>>
vars == <<encVars, brkVars, calcVars>>

----------------------------------------------------------------------------
(* Bounds of the model *)

\* longest input line enumerated (beside the sample lines)
MaxLen == 2
\* the shifts typed to the encoder are -MaxShift .. MaxShift
MaxShift == 27

----------------------------------------------------------------------------
(* C++ integer arithmetic *)

Max(a, b) == IF a >= b THEN a ELSE b
Min(a, b) == IF a <= b THEN a ELSE b

\* the % of C++ on ints: the remainder has the sign of the dividend
CRem(a, b) == IF a >= 0 THEN a % b ELSE -((-a) % b)

----------------------------------------------------------------------------
(* Natural numbers of any size: little-endian limbs, no leading zero limb *)

Base == 100 * 100

Limb(a, i) == IF i <= Len(a) THEN a[i] ELSE 0

\* the sum of the values of f, none of them negative: f with 1 added to
\* every value is a bag
Sum(f) ==
    BagCardinality([i \in DOMAIN f |-> f[i] + 1]) - Cardinality(DOMAIN f)

\* a without its leading zero limbs
NTrim(a) ==
    IF a = <<>> \/ a[Len(a)] # 0 THEN a
    ELSE SubSeq(a, 1, Cardinality({i \in 1..Len(a) :
                                     \E j \in i..Len(a) : a[j] # 0}))

\* an int 0 <= k < 2^31
NFromInt(k) == NTrim(<<k % Base, (k \div Base) % Base, k \div (Base * Base)>>)

NGreater(a, b) ==
    \E i \in 1..Len(a) :
        /\ a[i] > Limb(b, i)
        /\ \A j \in (i + 1)..Max(Len(a), Len(b)) : Limb(a, j) = Limb(b, j)

\* -1, 0 or 1 as a < b, a = b or a > b
NCmp(a, b) == IF NGreater(a, b) THEN 1 ELSE IF NGreater(b, a) THEN -1 ELSE 0

\* a + b: limb i takes a carry when a lower limb overflows and every limb
\* between passes the carry on
NAdd(a, b) ==
    LET n == Max(Len(a), Len(b)) + 1
        s == SubSeq([i \in 1..n |-> Limb(a, i) + Limb(b, i)], 1, n)
        c == [i \in 1..n |->
                IF \E j \in 1..(i - 1) :
                      /\ s[j] >= Base
                      /\ \A k \in (j + 1)..(i - 1) : s[k] >= Base - 1
                THEN 1 ELSE 0]
    IN  NTrim(SubSeq([i \in 1..n |-> (s[i] + c[i]) % Base], 1, n))

\* a - b, for a >= b: the borrows run as the carries of NAdd
NSub(a, b) ==
    LET n == Len(a)
        d == SubSeq([i \in 1..n |-> a[i] - Limb(b, i)], 1, n)
        br == [i \in 1..n |->
                 IF \E j \in 1..(i - 1) :
                       /\ d[j] < 0
                       /\ \A k \in (j + 1)..(i - 1) : d[k] <= 0
                 THEN 1 ELSE 0]
    IN  NTrim(SubSeq([i \in 1..n |-> (d[i] - br[i] + Base) % Base], 1, n))

\* a * k, for an int 0 <= k < Base
NMulInt(a, k) ==
    LET n == Len(a)
        p == SubSeq([i \in 1..n |-> a[i] * k], 1, n)
    IN  NAdd(SubSeq([i \in 1..n |-> p[i] % Base], 1, n),
             SubSeq([i \in 1..(n + 1) |->
                        IF i = 1 THEN 0 ELSE p[i - 1] \div Base], 1, n + 1))

\* the number whose limb i is the int p[i] < 2^31
NCarry(p) ==
    LET n == Len(p)
        lo == SubSeq([i \in 1..n |-> p[i] % Base], 1, n)
        mid == SubSeq([i \in 1..(n + 1) |->
                         IF i = 1 THEN 0 ELSE (p[i - 1] \div Base) % Base],
                      1, n + 1)
        hi == SubSeq([i \in 1..(n + 2) |->
                        IF i <= 2 THEN 0 ELSE p[i - 2] \div (Base * Base)],
                     1, n + 2)
    IN  NAdd(NAdd(lo, mid), hi)

\* a * b: limb m of the product collects the a[i] * b[j] with i + j = m + 1
NMul(a, b) ==
    IF a = <<>> \/ b = <<>> THEN <<>>
    ELSE IF Len(b) = 1 THEN NMulInt(a, b[1])
    ELSE IF Len(a) = 1 THEN NMulInt(b, a[1])
    ELSE LET n == Len(a) + Len(b) - 1
         IN  NCarry(SubSeq(
                 [m \in 1..n |->
                    Sum([i \in Max(1, m + 1 - Len(b))..Min(Len(a), m) |->
                           a[i] * b[m + 1 - i]])], 1, n))

\* a * Base^n and a \div Base^n
NShl(a, n) == IF a = <<>> THEN a ELSE [i \in 1..n |-> 0] \o a
NShr(a, n) == IF Len(a) <= n THEN <<>> ELSE SubSeq(a, n + 1, Len(a))

\* c \div b and the rest, for c < b * Base and a leading limb of b of Base/2
\* at least: the quotient of the leading limbs is right or 1 or 2 too large
NQuot(c, b) ==
    LET n  == Len(b)
        d  == Min(Base - 1, (Limb(c, n + 1) * Base + Limb(c, n)) \div b[n])
        m0 == NMulInt(b, d)
        m1 == NSub(m0, b)
    IN  IF NCmp(m0, c) <= 0 THEN [d |-> d, r |-> NSub(c, m0)]
        ELSE IF NCmp(m1, c) <= 0 THEN [d |-> d - 1, r |-> NSub(c, m1)]
        ELSE [d |-> d - 2, r |-> NSub(c, NSub(m1, b))]

RECURSIVE NDivAt(_, _, _)
\* quotient and remainder of the limbs i.. of a by b
NDivAt(a, b, i) ==
    IF Len(a) - i + 1 < Len(b)
    THEN [q |-> <<>>, r |-> NTrim(SubSeq(a, i, Len(a)))]
    ELSE LET p == NDivAt(a, b, i + 1)
         IN  IF p.r = <<>> /\ a[i] = 0 THEN [q |-> <<0>> \o p.q, r |-> <<>>]
             ELSE LET s == NQuot(<<a[i]>> \o p.r, b)
                  IN  [q |-> <<s.d>> \o p.q, r |-> s.r]

\* a \div b, for b # 0: both are scaled first, so that the leading limb of
\* the divisor is at least Base/2
NDiv(a, b) ==
    LET f == Base \div (b[Len(b)] + 1)
    IN  NTrim(NDivAt(NMulInt(a, f), NMulInt(b, f), 1).q)

\* the int a is, for a < Base^2
NToInt(a) == Limb(a, 1) + Base * Limb(a, 2)

----------------------------------------------------------------------------
(* Doubles: sign and magnitude in units of 1e-16, and the value no number *)

FracLimbs == 2 + 2

Mk(neg, mag) == [nan |-> FALSE, neg |-> neg /\ mag # <<>>, mag |-> mag]

\* 0/0; a quotient x/0 with x # 0 is met nowhere in the library
NaN == [nan |-> TRUE, neg |-> FALSE, mag |-> <<>>]

\* the decimal literal i.d1d2d3d4, each d four digits
Dec(i, d1, d2, d3, d4) == Mk(FALSE, NTrim(<<d4, d3, d2, d1, i>>))

FromInt(k) ==
    Mk(k < 0, NShl(NFromInt(IF k < 0 THEN -k ELSE k), FracLimbs))

FZero == FromInt(0)
FOne == FromInt(1)

FNeg(a) == IF a.nan THEN a ELSE Mk(~a.neg, a.mag)

FAdd(a, b) ==
    IF a.nan \/ b.nan THEN NaN
    ELSE IF a.neg = b.neg THEN Mk(a.neg, NAdd(a.mag, b.mag))
    ELSE IF NCmp(a.mag, b.mag) >= 0 THEN Mk(a.neg, NSub(a.mag, b.mag))
    ELSE Mk(b.neg, NSub(b.mag, a.mag))

FSub(a, b) == FAdd(a, FNeg(b))

FMul(a, b) ==
    IF a.nan \/ b.nan THEN NaN
    ELSE Mk(a.neg # b.neg, NShr(NMul(a.mag, b.mag), FracLimbs))

FDiv(a, b) ==
    IF a.nan \/ b.nan \/ b.mag = <<>> THEN NaN
    ELSE Mk(a.neg # b.neg, NDiv(NShl(a.mag, FracLimbs), b.mag))

\* a double times and by an int, which converts exactly
FMulInt(a, k) ==
    IF a.nan THEN NaN
    ELSE Mk(a.neg # (k < 0), NMul(a.mag, NFromInt(IF k < 0 THEN -k ELSE k)))

FDivInt(a, k) ==
    IF a.nan \/ k = 0 THEN NaN
    ELSE Mk(a.neg # (k < 0), NDiv(a.mag, NFromInt(IF k < 0 THEN -k ELSE k)))

\* every comparison with NaN is false
FLt(a, b) ==
    /\ ~a.nan /\ ~b.nan
    /\ IF a.neg # b.neg THEN a.neg
       ELSE IF a.neg THEN NCmp(a.mag, b.mag) > 0
       ELSE NCmp(a.mag, b.mag) < 0

FGt(a, b) == FLt(b, a)
FLe(a, b) == ~a.nan /\ ~b.nan /\ ~FLt(b, a)
FEq(a, b) == ~a.nan /\ ~b.nan /\ a = b

\* (int)a: the fraction is dropped
ToInt(a) == (IF a.neg THEN -1 ELSE 1) * NToInt(NShr(a.mag, FracLimbs))

\* INT_MAX, and whether the int product a * b of two ints >= 0 passes it
IntMax == 2147483647 + 0
MulOverflows(a, b) == a # 0 /\ b > IntMax \div a

----------------------------------------------------------------------------
(* Ceaser_Cipher.cpp *)

IsLower(ch) == ch >= 97 /\ ch <= 122
IsUpper(ch) == ch >= 65 /\ ch <= 90

\* a mutant of EncodeChar: the + 26 that keeps the dividend positive is lost
EncodeCharNoBias(ch, s) ==
    IF IsLower(ch) THEN 97 + CRem(ch - 97 + s, 26)
    ELSE IF IsUpper(ch) THEN 65 + CRem(ch - 65 + s, 26)
    ELSE ch

\* the body of the for loop: s is sv after normalising
EncodeChar(ch, s) ==
    IF IsLower(ch) THEN 97 + CRem(ch - 97 + s + 26, 26)
    ELSE IF IsUpper(ch) THEN 65 + CRem(ch - 65 + s + 26, 26)
    ELSE ch

\* the whole program as a function of what is typed
Caesar(line, s) == [i \in 1..Len(line) |-> EncodeChar(line[i], CRem(s, 26))]

\* the characters the enumerated lines are made of: a i z A space {
Alphabet == {97, 105, 122, 65, 32, 123}

RECURSIVE LinesOfLen(_)
LinesOfLen(n) ==
    IF n = 0 THEN {<<>>}
    ELSE {Append(l, c) : l \in LinesOfLen(n - 1), c \in Alphabet}

\* "Attack" and "Attack at 2!"
Attack == <<65, 116, 116, 97, 99, 107>>
Samples == {Attack, Attack \o <<32, 97, 116, 32, 50, 33>>}

Lines == UNION {LinesOfLen(n) : n \in 0..MaxLen} \cup Samples

\* cin >> sv; getline(cin, ip); op = ""
EncRead ==
    /\ UNCHANGED <<brkVars, calcVars>>
    /\ epc = "read" /\ run = 1
    /\ \E s \in -MaxShift..MaxShift, l \in Lines :
          /\ sv' = s /\ typed' = s
          /\ ip' = l /\ orig' = l
    /\ op' = <<>>
    /\ epc' = "normalize"
    /\ UNCHANGED run

\* sv = sv % 26
EncNormalize ==
    /\ UNCHANGED <<brkVars, calcVars>>
    /\ epc = "normalize"
    /\ sv' = CRem(sv, 26)
    /\ epc' = "loop"
    /\ UNCHANGED <<ip, op, run, typed, orig>>

\* one iteration of for (char ch : ip)
EncStep ==
    /\ UNCHANGED <<brkVars, calcVars>>
    /\ epc = "loop"
    /\ Len(op) < Len(ip)
    /\ op' = Append(op, EncodeChar(ip[Len(op) + 1], sv))
    /\ UNCHANGED <<sv, ip, epc, run, typed, orig>>

\* cout << "OUTPUT: " << op
EncOutput ==
    /\ UNCHANGED <<brkVars, calcVars>>
    /\ epc = "loop"
    /\ Len(op) = Len(ip)
    /\ epc' = "done"
    /\ UNCHANGED <<sv, ip, op, run, typed, orig>>

\* the user runs the program again on its output, with the opposite shift
EncRerun ==
    /\ UNCHANGED <<brkVars, calcVars>>
    /\ epc = "done" /\ run = 1
    /\ run' = 2
    /\ sv' = -typed
    /\ ip' = op
    /\ op' = <<>>
    /\ epc' = "normalize"
    /\ UNCHANGED <<typed, orig>>

EncNext == EncRead \/ EncNormalize \/ EncStep \/ EncOutput \/ EncRerun

----------------------------------------------------------------------------
(* Level2.cpp and level3.cpp *)

\* char cipher[200]
BufSize == 200

\* what an uninitialised bestText holds
Garbage == <<-1>>

\* cin.getline(cipher, 200): at most 199 characters are stored
GetLine(line) == SubSeq(line, 1, Min(Len(line), BufSize - 1))

\* a mutant of DecodeChar: the shift is added
DecodeCharAdd(ch, s) ==
    IF IsLower(ch) THEN CRem(ch - 97 + s + 26, 26) + 97 ELSE ch

\* (ch - 'a' - shift + 26) % 26 + 'a' for a small letter, else ch
DecodeChar(ch, s) ==
    IF IsLower(ch) THEN CRem(ch - 97 - s + 26, 26) + 97 ELSE ch

Decode(c, s) == [i \in 1..Len(c) |-> DecodeChar(c[i], s)]

IsVowel(ch) == ch \in {97, 101, 105, 111, 117}

\* vowelCount after the inner loop: only decoded small letters are looked at
CountVowels(c, s) ==
    Cardinality({i \in 1..Len(c) :
                    IsLower(c[i]) /\ IsVowel(DecodeChar(c[i], s))})

\* a mutant of Better: >= for >
BetterOrEqual(vowelCount, score) == vowelCount >= score

\* if (vowelCount > bestScore)
Better(vowelCount, score) == vowelCount > score

\* for (shift = 1; shift <= 25; shift++)
LastShift == 25

\* a plaintext of 200 letters, "aiai...", one more than the buffer stores
LongLine == [i \in 1..BufSize |-> IF i % 2 = 1 THEN 97 ELSE 105]

\* the line typed is some plaintext as Ceaser_Cipher.cpp encodes it
TypedLines ==
    {[p |-> l, s |-> s, c |-> Caesar(l, s)] :
        l \in Lines \cup {LongLine}, s \in -2..MaxShift}

\* Level2.cpp up to the loop over the shifts: getline, then the count of len
L2Read ==
    /\ UNCHANGED <<encVars, calcVars>>
    /\ bpc = "start"
    /\ \E t \in TypedLines :
          /\ plain' = t.p /\ encShift' = t.s
          /\ cipher' = GetLine(t.c)
          /\ len' = Len(GetLine(t.c))
    /\ prog' = "Level2"
    /\ bestShift' = 0 /\ bestScore' = -1 /\ bestText' = Garbage
    /\ shift' = 1
    /\ tried' = <<>>
    /\ bpc' = "loop"

\* Level2.cpp: one iteration of the loop over the shifts
L2TryShift ==
    /\ UNCHANGED <<encVars, calcVars>>
    /\ bpc = "loop" /\ prog = "Level2"
    /\ shift <= LastShift
    /\ LET decoded == [i \in 1..len |-> DecodeChar(cipher[i], shift)]
           vowelCount == CountVowels(SubSeq(cipher, 1, len), shift)
       IN  IF Better(vowelCount, bestScore)
           THEN /\ bestScore' = vowelCount
                /\ bestShift' = shift
                /\ bestText' = [j \in 1..len |-> decoded[j]]
           ELSE UNCHANGED <<bestScore, bestShift, bestText>>
    /\ tried' = Append(tried, shift)
    /\ shift' = shift + 1
    /\ UNCHANGED <<cipher, len, bpc, prog, plain, encShift>>

\* Level2.cpp: cout << bestShift, cout << bestText
L2Print ==
    /\ UNCHANGED <<encVars, calcVars>>
    /\ bpc = "loop" /\ prog = "Level2"
    /\ shift > LastShift
    /\ bpc' = "done"
    /\ UNCHANGED <<cipher, len, shift, bestShift, bestScore, bestText, prog,
                   tried, plain, encShift>>

\* level3.cpp up to the loop over the shifts: it keeps no length
L3Read ==
    /\ UNCHANGED <<encVars, calcVars>>
    /\ bpc = "start"
    /\ \E t \in TypedLines :
          /\ plain' = t.p /\ encShift' = t.s
          /\ cipher' = GetLine(t.c)
    /\ len' = 0
    /\ prog' = "level3"
    /\ bestShift' = 0 /\ bestScore' = -1 /\ bestText' = Garbage
    /\ shift' = 1
    /\ tried' = <<>>
    /\ bpc' = "loop"

\* level3.cpp: one iteration of the loop over the shifts; the loops run to
\* the terminator and the terminators are put at strlen(cipher)
L3TryShift ==
    /\ UNCHANGED <<encVars, calcVars>>
    /\ bpc = "loop" /\ prog = "level3"
    /\ shift <= LastShift
    /\ LET decoded == Decode(cipher, shift)
           vowelCount == CountVowels(cipher, shift)
       IN  IF Better(vowelCount, bestScore)
           THEN /\ bestScore' = vowelCount
                /\ bestShift' = shift
                /\ bestText' = SubSeq(decoded, 1, Len(cipher))
           ELSE UNCHANGED <<bestScore, bestShift, bestText>>
    /\ tried' = Append(tried, shift)
    /\ shift' = shift + 1
    /\ UNCHANGED <<cipher, len, bpc, prog, plain, encShift>>

\* level3.cpp: cout << bestShift, cout << bestText
L3Print ==
    /\ UNCHANGED <<encVars, calcVars>>
    /\ bpc = "loop" /\ prog = "level3"
    /\ shift > LastShift
    /\ bpc' = "done"
    /\ UNCHANGED <<cipher, len, shift, bestShift, bestScore, bestText, prog,
                   tried, plain, encShift>>

BrkNext == L2Read \/ L2TryShift \/ L2Print \/ L3Read \/ L3TryShift \/ L3Print

----------------------------------------------------------------------------
(* CALCULATOR.cpp: the library *)

e == Dec(2, 7182, 8182, 8000, 0)
PI == Dec(3, 1415, 9265, 3500, 0)

\* the thresholds 1e-9, 1e-10 and 1e-12
Tol9 == Dec(0, 0, 0, 1000, 0)
Tol10 == Dec(0, 0, 0, 100, 0)
Tol12 == Dec(0, 0, 0, 1, 0)

Half == Dec(0, 5000, 0, 0, 0)
OneAndHalf == Dec(1, 5000, 0, 0, 0)

abso(x) == IF FLt(x, FZero) THEN FNeg(x) ELSE x

hasDecimal(num) == FGt(abso(FSub(num, FromInt(ToInt(num)))), Tol9)

RECURSIVE normalizeDown(_)
normalizeDown(x) ==
    IF FGt(x, FMulInt(PI, 2)) THEN normalizeDown(FSub(x, FMulInt(PI, 2)))
    ELSE x

RECURSIVE normalizeUp(_)
normalizeUp(x) ==
    IF FLt(x, FMulInt(PI, -2)) THEN normalizeUp(FAdd(x, FMulInt(PI, 2)))
    ELSE x

normalize(x) == normalizeUp(normalizeDown(x))

(* A call in progress.  x and y are the arguments; num is the double the    *)
(* function works on (ln's num, lnNear1's z, mySqrt's guess, the normalised *)
(* angle), term and sum its other doubles (y and result in lnNear1, c in    *)
(* tan_), n and k its ints (cnt, n, i; ln's k).  iters counts the           *)
(* iterations of its own loops and sub the library calls it has made.       *)
Frame(fn, at, x, y) ==
    [fn |-> fn, at |-> at, x |-> x, y |-> y, num |-> FZero, term |-> FZero,
     sum |-> FZero, n |-> 0, k |-> 0, iters |-> 0, sub |-> 0]

\* the frame of a call as its first loop, or its first check, finds it
New(fn, x, y) ==
    CASE fn = "power" ->
            [Frame(fn, "loop", x, y) EXCEPT !.sum = FOne, !.k = ToInt(y)]
      [] fn = "lnNear1" ->
            [Frame(fn, "loop", x, y) EXCEPT !.num = FSub(x, FOne), !.n = 1]
      [] fn = "exp_" ->
            [Frame(fn, "loop", x, y) EXCEPT !.term = FOne, !.sum = FOne,
                                            !.n = 1]
      [] fn = "sin_" ->
            [Frame(fn, "loop", x, y) EXCEPT !.num = normalize(x),
                 !.term = normalize(x), !.sum = normalize(x), !.n = 1,
                 !.sub = 1]
      [] fn = "cos_" ->
            [Frame(fn, "loop", x, y) EXCEPT !.num = normalize(x),
                 !.term = FOne, !.sum = FOne, !.n = 1, !.sub = 1]
      [] OTHER -> Frame(fn, "entry", x, y)

Top == stack[Len(stack)]

Running(fn, at) == stack # <<>> /\ Top.fn = fn /\ Top.at = at

mainVars == <<mpc, choice, num1, num2, result, shown, back>>

\* the call goes on with its frame now f
Step(f) ==
    /\ stack' = [stack EXCEPT ![Len(stack)] = f]
    /\ UNCHANGED <<ret, log, out, mainVars, encVars, brkVars>>

\* the call, its frame now f, calls a function whose frame is g
Call(f, g) ==
    /\ stack' = Append([stack EXCEPT ![Len(stack)] =
                           [f EXCEPT !.sub = @ + 1]], g)
    /\ UNCHANGED <<ret, log, out, mainVars, encVars, brkVars>>

\* the call, its frame now f, returns v, having printed msg if msg # ""
Return(f, v, msg) ==
    /\ stack' = SubSeq(stack, 1, Len(stack) - 1)
    /\ ret' = v
    /\ log' = Append(log, [fn |-> f.fn, x |-> f.x, y |-> f.y, val |-> v,
                           msg |-> msg, iters |-> f.iters, sub |-> f.sub])
    /\ out' = IF msg = "" THEN out ELSE Append(out, msg)
    /\ UNCHANGED <<mainVars, encVars, brkVars>>

\* signed overflow is undefined: the model follows the call no further
Undefined(f) == Step([f EXCEPT !.at = "ub"])

(* power: the exponent p is y as an int, in k; res is sum and i is n *)

\* for (int i = 0; i < p; i++) res *= num
powerStep ==
    /\ Running("power", "loop")
    /\ Top.n < Top.k
    /\ Step([Top EXCEPT !.sum = FMul(@, Top.x), !.n = @ + 1,
                        !.iters = @ + 1])

powerReturn ==
    /\ Running("power", "loop")
    /\ ~(Top.n < Top.k)
    /\ Return(Top, Top.sum, "")

(* lnNear1 *)

\* a round of the do-while up to its call power(z, cnt)
lnNear1Power ==
    /\ Running("lnNear1", "loop")
    /\ Call([Top EXCEPT !.at = "power"],
            New("power", Top.num, FromInt(Top.n)))

\* the rest of the round, its test included
lnNear1Step ==
    /\ Running("lnNear1", "power")
    /\ LET sign == IF Top.n % 2 = 0 THEN FromInt(-1) ELSE FromInt(1)
           y == FDivInt(FMul(sign, ret), Top.n)
           f == [Top EXCEPT !.at = "loop", !.term = y, !.sum = FAdd(@, y),
                            !.n = @ + 1, !.iters = @ + 1, !.sub = @ + 1]
       IN  IF FGt(abso(y), Tol10) THEN Step(f) ELSE Return(f, f.sum, "")

(* ln *)

lnNotDefined(num) == FEq(num, FZero)
lnInvalid(num) == FLt(num, FZero)

lnEntry ==
    /\ Running("ln", "entry")
    /\ IF lnNotDefined(Top.x) THEN Return(Top, FZero, "NOT DEFINED")
       ELSE IF lnInvalid(Top.x) THEN Return(Top, FZero, "Invalid Input")
       ELSE Step([Top EXCEPT !.at = "red1", !.num = Top.x, !.k = 0])

\* while (num > 1.5)
lnTooBig(num) == FGt(num, OneAndHalf)

\* while (num < 0.5)
lnTooSmall(num) == FLt(num, Half)

\* a mutant of lnDivideBody: k-- for k++
lnDivideBodyDown(f) ==
    [f EXCEPT !.num = FDiv(@, e), !.k = @ - 1, !.iters = @ + 1]

\* { num /= e; k++; }
lnDivideBody(f) ==
    [f EXCEPT !.num = FDiv(@, e), !.k = @ + 1, !.iters = @ + 1]

\* { num *= e; k--; }
lnMultiplyBody(f) ==
    [f EXCEPT !.num = FMul(@, e), !.k = @ - 1, !.iters = @ + 1]

lnDivide ==
    /\ Running("ln", "red1")
    /\ lnTooBig(Top.num)
    /\ Step(lnDivideBody(Top))

lnDivided ==
    /\ Running("ln", "red1")
    /\ ~lnTooBig(Top.num)
    /\ Step([Top EXCEPT !.at = "red2"])

lnMultiply ==
    /\ Running("ln", "red2")
    /\ lnTooSmall(Top.num)
    /\ Step(lnMultiplyBody(Top))

lnSeries ==
    /\ Running("ln", "red2")
    /\ ~lnTooSmall(Top.num)
    /\ Call([Top EXCEPT !.at = "series"], New("lnNear1", Top.num, FZero))

\* return k + lnNear1(num)
lnReturn ==
    /\ Running("ln", "series")
    /\ Return(Top, FAdd(FromInt(Top.k), ret), "")

(* exp_ *)

\* one round of the do-while, its test included
expStep ==
    /\ Running("exp_", "loop")
    /\ LET term == FMul(Top.term, FDivInt(Top.x, Top.n))
           f == [Top EXCEPT !.term = term, !.sum = FAdd(@, term),
                            !.n = @ + 1, !.iters = @ + 1, !.sub = @ + 1]
       IN  IF FGt(abso(term), Tol12) THEN Step(f) ELSE Return(f, f.sum, "")

(* log10_: the model evaluates ln(x) before ln(10) *)

log10First ==
    /\ Running("log10_", "entry")
    /\ Call([Top EXCEPT !.at = "ln1"], New("ln", Top.x, FZero))

log10Second ==
    /\ Running("log10_", "ln1")
    /\ Call([Top EXCEPT !.at = "ln2", !.sum = ret],
            New("ln", FromInt(10), FZero))

log10Return ==
    /\ Running("log10_", "ln2")
    /\ Return(Top, FDiv(Top.sum, ret), "")

(* mySqrt *)

\* for (i = 0; i < 100; i++)
NewtonRounds == 100

\* a mutant of mySqrtNegative: x < -1
mySqrtBelowMinusOne(x) == FLt(x, FromInt(-1))

mySqrtNegative(x) == FLt(x, FZero)

sqrtEntry ==
    /\ Running("mySqrt", "entry")
    /\ IF mySqrtNegative(Top.x)
       THEN Return(Top, FZero, "Error: Square root of negative number!")
       ELSE Step([Top EXCEPT !.at = "loop", !.n = 0,
                             !.num = FDiv(Top.x, FromInt(2))])

sqrtStep ==
    /\ Running("mySqrt", "loop")
    /\ Top.n < NewtonRounds
    /\ Step([Top EXCEPT
                !.num = FDiv(FAdd(@, FDiv(Top.x, @)), FromInt(2)),
                !.n = @ + 1, !.iters = @ + 1])

sqrtReturn ==
    /\ Running("mySqrt", "loop")
    /\ ~(Top.n < NewtonRounds)
    /\ Return(Top, Top.num, "")

(* deciPow *)

deciPowInvalid(a) == FLe(a, FZero)

deciPowEntry ==
    /\ Running("deciPow", "entry")
    /\ IF deciPowInvalid(Top.x)
       THEN Return(Top, FZero, "Invalid input for power!")
       ELSE Call([Top EXCEPT !.at = "ln"], New("ln", Top.x, FZero))

deciPowExp ==
    /\ Running("deciPow", "ln")
    /\ Call([Top EXCEPT !.at = "exp"], New("exp_", FMul(Top.y, ret), FZero))

deciPowReturn ==
    /\ Running("deciPow", "exp")
    /\ Return(Top, ret, "")

(* sin_ and cos_ *)

sinStep ==
    /\ Running("sin_", "loop")
    /\ FGt(abso(Top.term), Tol10)
    /\ IF MulOverflows(2 * Top.n, 2 * Top.n + 1) THEN Undefined(Top)
       ELSE LET term ==
                    FMul(Top.term,
                         FDivInt(FMul(FMulInt(Top.num, -1), Top.num),
                                 (2 * Top.n) * (2 * Top.n + 1)))
            IN  Step([Top EXCEPT !.term = term, !.sum = FAdd(@, term),
                                 !.n = @ + 1, !.iters = @ + 1,
                                 !.sub = @ + 1])

sinReturn ==
    /\ Running("sin_", "loop")
    /\ ~FGt(abso(Top.term), Tol10)
    /\ Return([Top EXCEPT !.sub = @ + 1], Top.sum, "")

cosStep ==
    /\ Running("cos_", "loop")
    /\ FGt(abso(Top.term), Tol10)
    /\ IF MulOverflows(2 * Top.n - 1, 2 * Top.n) THEN Undefined(Top)
       ELSE LET term ==
                    FMul(Top.term,
                         FDivInt(FMul(FMulInt(Top.num, -1), Top.num),
                                 (2 * Top.n - 1) * (2 * Top.n)))
            IN  Step([Top EXCEPT !.term = term, !.sum = FAdd(@, term),
                                 !.n = @ + 1, !.iters = @ + 1,
                                 !.sub = @ + 1])

cosReturn ==
    /\ Running("cos_", "loop")
    /\ ~FGt(abso(Top.term), Tol10)
    /\ Return([Top EXCEPT !.sub = @ + 1], Top.sum, "")

(* tan_ *)

tanEntry ==
    /\ Running("tan_", "entry")
    /\ Call([Top EXCEPT !.at = "cos", !.num = normalize(Top.x),
                        !.sub = @ + 1],
            New("cos_", normalize(Top.x), FZero))

tanCheck ==
    /\ Running("tan_", "cos")
    /\ IF FLt(abso(ret), Tol12)
       THEN Return([Top EXCEPT !.sum = ret, !.sub = @ + 1], FZero,
                   "Error: Tan undefined at this angle!")
       ELSE Call([Top EXCEPT !.at = "sin", !.sum = ret, !.sub = @ + 1],
                 New("sin_", Top.num, FZero))

tanReturn ==
    /\ Running("tan_", "sin")
    /\ Return(Top, FDiv(ret, Top.sum), "")

(* arcsin and arccos *)

arcsinOutside(x) == FLt(x, FromInt(-1)) \/ FGt(x, FOne)

arcsinEntry ==
    /\ Running("arcsin", "entry")
    /\ IF arcsinOutside(Top.x)
       THEN Return(Top, FZero, "Invalid input for arcsin!")
       ELSE Step([Top EXCEPT !.at = "loop", !.term = Top.x, !.sum = Top.x,
                             !.n = 1])

arcsinStep ==
    /\ Running("arcsin", "loop")
    /\ FGt(abso(Top.term), Tol12)
    /\ IF MulOverflows(2 * Top.n, 2 * Top.n + 1) THEN Undefined(Top)
       ELSE LET term ==
                    FMul(Top.term,
                         FDivInt(FMulInt(FMulInt(FMul(Top.x, Top.x),
                                                 2 * Top.n - 1),
                                         2 * Top.n - 1),
                                 (2 * Top.n) * (2 * Top.n + 1)))
            IN  Step([Top EXCEPT !.term = term, !.sum = FAdd(@, term),
                                 !.n = @ + 1, !.iters = @ + 1,
                                 !.sub = @ + 1])

arcsinReturn ==
    /\ Running("arcsin", "loop")
    /\ ~FGt(abso(Top.term), Tol12)
    /\ Return([Top EXCEPT !.sub = @ + 1], Top.sum, "")

arccosOutside(x) == FLt(x, FromInt(-1)) \/ FGt(x, FOne)

arccosEntry ==
    /\ Running("arccos", "entry")
    /\ IF arccosOutside(Top.x)
       THEN Return(Top, FZero, "Invalid input for arccos!")
       ELSE Call([Top EXCEPT !.at = "asin"], New("arcsin", Top.x, FZero))

\* return PI/2 - arcsin(x)
arccosReturn ==
    /\ Running("arccos", "asin")
    /\ Return(Top, FSub(FDivInt(PI, 2), ret), "")

(* arctan *)

arctanEntry ==
    /\ Running("arctan", "entry")
    /\ IF FGt(Top.x, FOne)
       THEN Call([Top EXCEPT !.at = "pos"],
                 New("arctan", FDiv(FOne, Top.x), FZero))
       ELSE IF FLt(Top.x, FromInt(-1))
       THEN Call([Top EXCEPT !.at = "neg"],
                 New("arctan", FDiv(FOne, Top.x), FZero))
       ELSE Step([Top EXCEPT !.at = "loop", !.term = Top.x, !.sum = Top.x,
                             !.n = 1])

arctanStep ==
    /\ Running("arctan", "loop")
    /\ FGt(abso(Top.term), Tol12)
    /\ IF MulOverflows(2, Top.n) THEN Undefined(Top)
       ELSE LET term ==
                    FMul(Top.term,
                         FDivInt(FMulInt(FNeg(FMul(Top.x, Top.x)),
                                         2 * Top.n - 1),
                                 2 * Top.n + 1))
            IN  Step([Top EXCEPT !.term = term, !.sum = FAdd(@, term),
                                 !.n = @ + 1, !.iters = @ + 1,
                                 !.sub = @ + 1])

arctanReturn ==
    /\ Running("arctan", "loop")
    /\ ~FGt(abso(Top.term), Tol12)
    /\ Return([Top EXCEPT !.sub = @ + 1], Top.sum, "")

\* return PI/2 - arctan(1/x), or -PI/2 - arctan(1/x)
arctanReflect ==
    /\ stack # <<>> /\ Top.fn = "arctan" /\ Top.at \in {"pos", "neg"}
    /\ Return(Top,
              FSub(FDivInt(IF Top.at = "pos" THEN PI ELSE FNeg(PI), 2), ret),
              "")

LibNext ==
    \/ powerStep \/ powerReturn
    \/ lnNear1Power \/ lnNear1Step
    \/ lnEntry \/ lnDivide \/ lnDivided \/ lnMultiply \/ lnSeries \/ lnReturn
    \/ expStep
    \/ log10First \/ log10Second \/ log10Return
    \/ sqrtEntry \/ sqrtStep \/ sqrtReturn
    \/ deciPowEntry \/ deciPowExp \/ deciPowReturn
    \/ sinStep \/ sinReturn \/ cosStep \/ cosReturn
    \/ tanEntry \/ tanCheck \/ tanReturn
    \/ arcsinEntry \/ arcsinStep \/ arcsinReturn
    \/ arccosEntry \/ arccosReturn
    \/ arctanEntry \/ arctanStep \/ arctanReturn \/ arctanReflect

----------------------------------------------------------------------------
(* CALCULATOR.cpp: main *)

\* the operands typed are the multiples of 1/2 from -MaxOperand to
\* MaxOperand, and 1/4
MaxOperand == 2

Operands ==
    {FDivInt(FromInt(k), 2) : k \in -2 * MaxOperand..2 * MaxOperand}
        \cup {FDivInt(FOne, 4)}

\* exponents a hair off an integer: 2.0000000001 and 2.9999999999
NearInts == {Dec(2, 0, 0, 100, 0), Dec(2, 9999, 9999, 9900, 0)}

\* the function of each unary menu entry
FnOf(c) ==
    CASE c = 6 -> "mySqrt" [] c = 7 -> "ln" [] c = 8 -> "log10_"
      [] c = 9 -> "exp_" [] c = 10 -> "sin_" [] c = 11 -> "cos_"
      [] c = 12 -> "tan_" [] c = 13 -> "arcsin" [] c = 14 -> "arccos"
      [] c = 15 -> "arctan"

\* what is typed at a unary entry, as pairs of the choice and the operand.
\* The arguments 1 and -1 of the inverse functions, whose series run past
\* the int range, are typed in SpecSession and called in SpecLib.
UnaryOperands(c) ==
    IF c \in 13..15 THEN {x \in Operands : abso(x) # FOne} ELSE Operands

UnaryRequests == {<<c, a>> : c \in 6..15, a \in Operands}

TypedRequests == {r \in UnaryRequests : r[2] \in UnaryOperands(r[1])}

\* arcsin at the two ends of its domain, inside it and outside it
EdgeRequests ==
    {<<13, FOne>>, <<13, FromInt(-1)>>, <<13, Half>>, <<13, FromInt(2)>>}

\* cases 1, 2 and 3
MainArith ==
    /\ mpc = "prompt"
    /\ \E c \in 1..3, a \in Operands, b \in Operands :
          /\ choice' = c /\ num1' = a /\ num2' = b
          /\ result' = CASE c = 1 -> FAdd(a, b)
                         [] c = 2 -> FSub(a, b)
                         [] c = 3 -> FMul(a, b)
          /\ shown' = result'
    /\ out' = <<"Result: ">>
    /\ mpc' = "handled"
    /\ back' = FALSE
    /\ UNCHANGED <<stack, ret, log, encVars, brkVars>>

\* case 4
MainDivide ==
    /\ mpc = "prompt"
    /\ \E a \in Operands, b \in Operands :
          /\ choice' = 4 /\ num1' = a /\ num2' = b
          /\ IF FEq(b, FZero)
             THEN out' = <<"Error: Division by zero!">> /\ shown' = shown
             ELSE out' = <<"Result: ">> /\ shown' = FDiv(a, b)
    /\ mpc' = "handled"
    /\ back' = FALSE
    /\ UNCHANGED <<result, stack, ret, log, encVars, brkVars>>

\* case 5 up to the call of deciPow or of power
MainPower ==
    /\ mpc = "prompt"
    /\ \E a \in Operands, b \in Operands \cup NearInts :
          /\ choice' = 5 /\ num1' = a /\ num2' = b
          /\ stack' = <<IF hasDecimal(b) THEN New("deciPow", a, b)
                        ELSE New("power", a, FromInt(ToInt(b)))>>
    /\ mpc' = "call"
    /\ back' = FALSE
    /\ UNCHANGED <<result, shown, out, log, ret, encVars, brkVars>>

\* case 5 after the call: result = ...; cout << "Result: " << result
MainPowerResult ==
    /\ mpc = "call" /\ choice = 5 /\ stack = <<>>
    /\ result' = ret
    /\ shown' = ret
    /\ out' = Append(out, "Result: ")
    /\ mpc' = "handled"
    /\ UNCHANGED <<choice, num1, num2, stack, ret, log, back, encVars,
                   brkVars>>

\* cases 6 to 15 up to the call, for a request among reqs
MainRead(reqs) ==
    /\ mpc = "prompt"
    /\ \E r \in reqs :
          /\ choice' = r[1] /\ num1' = r[2]
          /\ stack' = <<New(FnOf(r[1]), r[2], FZero)>>
    /\ out' = <<>>
    /\ mpc' = "call"
    /\ back' = FALSE
    /\ UNCHANGED <<num2, result, shown, ret, log, encVars, brkVars>>

MainUnary == MainRead(TypedRequests)

MainUnaryEdge == MainRead(EdgeRequests)

\* cases 6 to 15 after the call, in cout << "Result: " << f(num1): since
\* C++17 "Result: " is printed before f is called, before C++17 the compiler
\* chooses whether it is printed before the call or after it.  out takes it
\* up, in its place, once the call is back.
MainShow ==
    /\ mpc = "call" /\ choice \in 6..15 /\ stack = <<>>
    /\ \E early \in BOOLEAN :
          out' = IF early THEN <<"Result: ">> \o out
                 ELSE Append(out, "Result: ")
    /\ shown' = ret
    /\ mpc' = "handled"
    /\ UNCHANGED <<choice, num1, num2, result, stack, ret, log, back,
                   encVars, brkVars>>

\* case 16
MainExit ==
    /\ mpc = "prompt"
    /\ choice' = 16
    /\ out' = <<"Exiting program. Goodbye!">>
    /\ mpc' = "handled"
    /\ back' = FALSE
    /\ UNCHANGED <<num1, num2, result, shown, stack, ret, log,
                   encVars, brkVars>>

\* default
MainInvalid ==
    /\ mpc = "prompt"
    /\ \E c \in {-1, 0, 17} : choice' = c
    /\ out' = <<"Invalid choice! Please try again.">>
    /\ mpc' = "handled"
    /\ back' = FALSE
    /\ UNCHANGED <<num1, num2, result, shown, stack, ret, log,
                   encVars, brkVars>>

\* while (choice != 16)
StayInLoop(c) == c # 16

\* the test of the do-while.  What the next round overwrites before it
\* reads it (choice, the operands, result) and the record of the request
\* are forgotten on the way back to the prompt; until the next request is
\* read, back keeps whether this one has printed anything but a result.
MainLoop ==
    /\ mpc = "handled"
    /\ IF StayInLoop(choice)
       THEN /\ mpc' = "prompt"
            /\ back' = \E i \in 1..Len(out) : out[i] # "Result: "
            /\ choice' = 0
            /\ num1' = FZero /\ num2' = FZero /\ result' = FZero
            /\ shown' = FZero /\ ret' = FZero
            /\ out' = <<>> /\ log' = <<>>
       ELSE /\ mpc' = "exit"
            /\ UNCHANGED <<choice, num1, num2, result, shown, ret, out, log,
                           back>>
    /\ UNCHANGED <<stack, encVars, brkVars>>

MainNext ==
    \/ MainArith \/ MainDivide \/ MainPower \/ MainPowerResult
    \/ MainUnary \/ MainShow \/ MainExit \/ MainInvalid \/ MainLoop

----------------------------------------------------------------------------
(* Direct calls of the library *)

\* the arguments of ln are the multiples of 1/8 up to MaxLnArg, and four
\* far from 1: 1e-16, 0.0001, 1000 and 100000
MaxLnArg == 6

LnArgs ==
    {FDivInt(FromInt(k), 8) : k \in 1..8 * MaxLnArg}
        \cup {Dec(0, 0, 0, 0, 1), Dec(0, 1, 0, 0, 0), FromInt(1000),
              FromInt(100000)}

\* ln(x) for some x > 0
LnCall ==
    /\ mpc = "prompt"
    /\ \E x \in LnArgs : stack' = <<New("ln", x, FZero)>>
    /\ mpc' = "unit"
    /\ UNCHANGED <<choice, num1, num2, result, out, shown, ret, log, back,
                   encVars, brkVars>>

\* arguments at and next to the edges of each function's domain
LibArgs ==
    {[fn |-> "arcsin", x |-> FOne, y |-> FZero],
     [fn |-> "arcsin", x |-> FromInt(-1), y |-> FZero],
     [fn |-> "arcsin", x |-> Dec(0, 9900, 0, 0, 0), y |-> FZero],
     [fn |-> "arcsin", x |-> Dec(1, 0, 0, 0, 1), y |-> FZero],
     [fn |-> "arccos", x |-> FromInt(-2), y |-> FZero],
     [fn |-> "arccos", x |-> Half, y |-> FZero],
     [fn |-> "arctan", x |-> Dec(0, 9000, 0, 0, 0), y |-> FZero],
     [fn |-> "arctan", x |-> FromInt(-3), y |-> FZero],
     [fn |-> "arctan", x |-> FromInt(3), y |-> FZero],
     [fn |-> "exp_", x |-> FromInt(20), y |-> FZero],
     [fn |-> "exp_", x |-> FromInt(-5), y |-> FZero],
     [fn |-> "sin_", x |-> FromInt(100), y |-> FZero],
     [fn |-> "cos_", x |-> FromInt(-100), y |-> FZero],
     [fn |-> "tan_", x |-> FOne, y |-> FZero],
     [fn |-> "tan_", x |-> FZero, y |-> FZero],
     [fn |-> "mySqrt", x |-> FZero, y |-> FZero],
     [fn |-> "mySqrt", x |-> FromInt(2), y |-> FZero],
     [fn |-> "mySqrt", x |-> FromInt(-1), y |-> FZero],
     [fn |-> "ln", x |-> FZero, y |-> FZero],
     [fn |-> "ln", x |-> OneAndHalf, y |-> FZero],
     [fn |-> "ln", x |-> Dec(0, 1000, 0, 0, 0), y |-> FZero],
     [fn |-> "log10_", x |-> FromInt(100), y |-> FZero],
     [fn |-> "deciPow", x |-> FromInt(2), y |-> Dec(3, 5000, 0, 0, 0)],
     [fn |-> "deciPow", x |-> FZero, y |-> Half]}

\* one library function is called with such arguments
LibCall ==
    /\ mpc = "prompt"
    /\ \E a \in LibArgs : stack' = <<New(a.fn, a.x, a.y)>>
    /\ mpc' = "unit"
    /\ UNCHANGED <<choice, num1, num2, result, out, shown, ret, log, back,
                   encVars, brkVars>>

\* what hasDecimal is called with: the whole numbers up to MaxWhole and
\* the doubles 1e-10, 9e-10, 1.1e-9 and 0.1 above and below each
MaxWhole == 3

FracArgs ==
    LET off == {FZero, Dec(0, 0, 0, 100, 0), Dec(0, 0, 0, 900, 0),
                Dec(0, 0, 0, 1100, 0), Dec(0, 1000, 0, 0, 0)}
    IN  {FAdd(FromInt(w), d) : w \in -MaxWhole..MaxWhole, d \in off}
            \cup {FSub(FromInt(w), d) : w \in -MaxWhole..MaxWhole, d \in off}

hasDecimalCall ==
    /\ mpc = "prompt"
    /\ \E x \in FracArgs : stack' = <<New("hasDecimal", x, FZero)>>
    /\ mpc' = "unit"
    /\ UNCHANGED <<choice, num1, num2, result, out, shown, ret, log, back,
                   encVars, brkVars>>

\* the bool returned is 1 for true and 0 for false
hasDecimalReturn ==
    /\ Running("hasDecimal", "entry")
    /\ Return([Top EXCEPT !.sub = @ + 1],
              IF hasDecimal(Top.x) THEN FOne ELSE FZero, "")

----------------------------------------------------------------------------
(* Specifications *)

\* every program before its first statement
Init ==
    /\ epc = "read" /\ run = 1
    /\ sv = 0 /\ ip = <<>> /\ op = <<>> /\ typed = 0 /\ orig = <<>>
    /\ bpc = "start" /\ prog = "none"
    /\ cipher = <<>> /\ len = 0 /\ shift = 0
    /\ bestShift = 0 /\ bestScore = 0 /\ bestText = Garbage
    /\ tried = <<>> /\ plain = <<>> /\ encShift = 0
    /\ mpc = "prompt" /\ choice = 0
    /\ num1 = FZero /\ num2 = FZero /\ result = FZero /\ shown = FZero
    /\ out = <<>> /\ stack = <<>> /\ ret = FZero /\ log = <<>>
    /\ back = FALSE

SpecCaesar == Init /\ [][EncNext]_vars

SpecBreak == Init /\ [][BrkNext]_vars

\* the calculator at its menu
CalcNext == MainNext \/ LibNext

SpecCalc == Init /\ [][CalcNext]_vars

\* the library functions called directly, at the edges of their domains
UnitNext == LibCall \/ LibNext

SpecLib == Init /\ [][UnitNext]_vars

\* a session at the menu in which arcsin is asked for at the end of its
\* domain
SessionNext ==
    \/ MainArith \/ MainDivide \/ MainUnaryEdge \/ MainShow \/ MainExit
    \/ MainInvalid \/ MainLoop
    \/ arcsinEntry \/ arcsinStep \/ arcsinReturn

SpecSession == Init /\ [][SessionNext]_vars

\* ln called directly; a call in progress takes its next step
LnNext ==
    \/ LnCall \/ lnEntry \/ lnDivide \/ lnDivided \/ lnMultiply \/ lnSeries
    \/ lnNear1Power \/ lnNear1Step \/ powerStep \/ powerReturn \/ lnReturn

SpecLn == Init /\ [][LnNext]_vars

\* hasDecimal called directly
FracNext == hasDecimalCall \/ hasDecimalReturn

SpecFrac == Init /\ [][FracNext]_vars

----------------------------------------------------------------------------
(* The cipher claims *)

\* C1: when the encoder has run, every small letter of its input is a small
\* letter of its output, every capital a capital and every other character
\* itself; and when it has run on its own output with the opposite shift,
\* the output is the line first typed.
CaesarRoundTrip ==
    epc = "done" =>
        /\ Len(op) = Len(ip)
        /\ \A i \in 1..Len(ip) :
              /\ IsLower(ip[i]) => IsLower(op[i])
              /\ IsUpper(ip[i]) => IsUpper(op[i])
              /\ ~IsLower(ip[i]) /\ ~IsUpper(ip[i]) => op[i] = ip[i]
        /\ run = 2 => op = orig

\* "Attack at 2!" has gone forth by 3 and back by -3
CaesarRoundTripReached ==
    /\ epc = "done" /\ run = 2 /\ typed = 3
    /\ orig = Attack \o <<32, 97, 116, 32, 50, 33>>
    /\ ip # orig

NoCapital(l) == \A i \in 1..Len(l) : ~IsUpper(l[i])

\* the vowels left when the encoded plaintext is shifted back by t
VowelsBack(t) ==
    LET undone == Caesar(Caesar(plain, encShift), -t)
    IN  Cardinality({i \in 1..Len(undone) : IsVowel(undone[i])})

\* turning back by the shift used leaves more vowels than any other turn
UniqueBest == \A t \in 0..25 : t # encShift % 26 => VowelsBack(t) < VowelsBack(encShift)

BreakSelectsLowestBest ==
    bpc = "done" =>
        /\ tried = [i \in 1..25 |-> i]
        /\ bestShift \in 1..25
        /\ \A t \in 1..25 :
              /\ CountVowels(cipher, t) <= CountVowels(cipher, bestShift)
              /\ t < bestShift =>
                    CountVowels(cipher, t) < CountVowels(cipher, bestShift)
        /\ bestText # Garbage
        /\ bestText = Decode(cipher, bestShift)

\* level3 has printed for a line that two shifts past the first decode
\* to two vowels: the lower of them is reported
BreakSelectsReached ==
    /\ bpc = "done" /\ prog = "level3"
    /\ bestShift > 1 /\ bestScore = 2
    /\ \E t \in (bestShift + 1)..25 : CountVowels(cipher, t) = 2

----------------------------------------------------------------------------
(* The calculator claims *)

\* how far x is from the nearest whole number
NearestGap(x) ==
    LET fr == FSub(abso(x), FromInt(ToInt(abso(x))))
    IN  IF FLt(fr, Half) THEN fr ELSE FSub(FOne, fr)

\* C4: hasDecimal returns false for every value within 1e-9 of a whole
\* number, on either side of it, and true for every value farther than 1e-9
\* from every whole number.
HasDecimalTolerance ==
    \A i \in 1..Len(log) :
        log[i].fn = "hasDecimal" =>
            ((log[i].val = FOne) <=> FGt(NearestGap(log[i].x), Tol9))

\* hasDecimal has told 3.0000000001 from 3.1
HasDecimalReached ==
    /\ mpc = "unit" /\ stack = <<>> /\ Len(log) = 1
    /\ log[1].fn = "hasDecimal"
    /\ \/ log[1].x = Dec(3, 0, 0, 100, 0) /\ log[1].val = FZero
       \/ log[1].x = Dec(3, 1000, 0, 0, 0) /\ log[1].val = FOne

\* the calls the functions refuse: ln at and below 0, mySqrt below 0,
\* deciPow with a base of 0 or less, arcsin and arccos outside [-1, 1]
OutOfDomain(c) ==
    \/ c.fn = "ln" /\ (FEq(c.x, FZero) \/ FLt(c.x, FZero))
    \/ c.fn = "mySqrt" /\ FLt(c.x, FZero)
    \/ c.fn = "deciPow" /\ FLe(c.x, FZero)
    \/ c.fn \in {"arcsin", "arccos"}
          /\ (FLt(c.x, FromInt(-1)) \/ FGt(c.x, FromInt(1)))

\* C5: a call out of the domain prints a message and returns exactly 0; it
\* runs no round of a loop and calls no function of the library, neither
\* before it returns nor on the way.
DomainErrorSentinel ==
    /\ \A i \in 1..Len(log) :
          OutOfDomain(log[i]) =>
              /\ log[i].val = FZero
              /\ log[i].msg # ""
              /\ \E j \in 1..Len(out) : out[j] = log[i].msg
              /\ log[i].iters = 0 /\ log[i].sub = 0
    /\ \A i \in 1..Len(stack) :
          OutOfDomain(stack[i]) =>
              /\ i = Len(stack) /\ stack[i].at = "entry"
              /\ stack[i].iters = 0 /\ stack[i].sub = 0

\* 2 to the power 0.5 with the base -2: deciPow has refused
DomainErrorReached ==
    /\ mpc = "handled" /\ choice = 5 /\ num1 = FromInt(-2) /\ num2 = Half
    /\ log = <<[fn |-> "deciPow", x |-> FromInt(-2), y |-> Half,
                val |-> FZero, msg |-> "Invalid input for power!",
                iters |-> 0, sub |-> 0]>>
    /\ shown = FZero

\* C6: when an entry from 1 to 15 is handled, either "Result: " or an error
\* message is printed, and never both.
MenuOutputExclusive ==
    (mpc = "handled" /\ choice \in 1..15) =>
        ((\E i \in 1..Len(out) : out[i] = "Result: ")
            # (\E i \in 1..Len(out) : out[i] # "Result: "))

\* the square root of -2 is handled: the error is printed
MenuOutputReached ==
    /\ mpc = "handled" /\ choice = 6 /\ num1 = FromInt(-2)
    /\ \E i \in 1..Len(out) :
          out[i] = "Error: Square root of negative number!"

\* C7: whatever is selected but 16, the program comes back to the prompt.
\* The call of a request never leaves defined behaviour, past which nothing
\* brings it back; from a handled request the program goes to the prompt,
\* unless the choice was 16, and then it ends; it ends in no other way, and
\* stays ended.
SessionContinuity ==
    [][/\ mpc' = "call" => \A i \in 1..Len(stack') : stack'[i].at # "ub"
       /\ mpc = "handled" =>
             mpc' = (IF choice = 16 THEN "exit" ELSE "prompt")
       /\ mpc' = "exit" => (mpc = "exit" \/ (mpc = "handled" /\ choice = 16))
       /\ mpc = "exit" => mpc' = "exit"]_vars

\* the prompt is back after a request that printed an error
SessionContinuedReached == mpc = "prompt" /\ back /\ stack = <<>> /\ out = <<>>

\* C8: no loop comes to an int expression past the int range, and mySqrt,
\* when it returns a root, has run its loop exactly 100 times.
LoopsEndInRange ==
    /\ \A i \in 1..Len(stack) : stack[i].at # "ub"
    /\ \A i \in 1..Len(log) :
          (log[i].fn = "mySqrt" /\ log[i].msg = "") => log[i].iters = 100

\* arcsin(0.99) has returned after more than 500 rounds
LoopsEndReached ==
    /\ mpc = "unit" /\ stack = <<>> /\ Len(log) = 1
    /\ log[1].fn = "arcsin" /\ log[1].x = Dec(0, 9900, 0, 0, 0)
    /\ log[1].iters > 500

\* e * e * ... * e, n times, for 0 <= n < 64, by the squares of e
EPow(n) ==
    LET e2 == FMul(e, e)
        e4 == FMul(e2, e2)
        e8 == FMul(e4, e4)
        e16 == FMul(e8, e8)
        e32 == FMul(e16, e16)
        Bit(j, v) == IF (n \div (2 ^ j)) % 2 = 1 THEN v ELSE FOne
    IN  FMul(FMul(FMul(Bit(0, e), Bit(1, e2)), FMul(Bit(2, e4), Bit(3, e8))),
             FMul(Bit(4, e16), Bit(5, e32)))

\* a and b differ by a millionth of a millionth of b at most, or by 1e-12
Close(a, b) == FLe(abso(FSub(a, b)), FAdd(FMul(abso(b), Tol12), Tol12))

\* x = num * e^k for the frame f of ln; for k < 0 as x * e^-k = num would
\* multiply the rounding of x, the two are compared as x and num / e^-k
Rebuilt(f) ==
    IF f.k >= 0 THEN Close(FMul(f.num, EPow(f.k)), f.x)
    ELSE Close(FDiv(f.num, EPow(-f.k)), f.x)

LnFrames == {i \in 1..Len(stack) : stack[i].fn = "ln" /\ stack[i].at # "entry"}

\* the rounds the two loops of ln run together, for 1e-16 <= x <= 100000
LnRounds == 40

\* C9: in every call of ln past its checks x = num * e^k; a division leaves
\* num at 0.5 or above and a multiplication at 1.5 or below, so that the
\* rounds run are k or -k of one loop and none of the other, and no more
\* than LnRounds; and the series is given a num in [0.5, 1.5].
LnReduction ==
    \A i \in LnFrames :
        LET f == stack[i]
        IN  /\ Rebuilt(f)
            /\ f.iters = (IF f.k >= 0 THEN f.k ELSE -f.k)
            /\ f.iters <= LnRounds
            /\ f.at = "red1" => f.k >= 0
            /\ f.k > 0 => FLe(Half, f.num)
            /\ f.k < 0 => FLe(f.num, OneAndHalf)
            /\ f.at = "series" =>
                  /\ FLe(Half, f.num) /\ FLe(f.num, OneAndHalf)

\* ln(1000) is at its series with k = 7, and ln(0.125) with k = -2
LnReductionReached ==
    /\ Len(stack) = 1 /\ stack[1].fn = "ln" /\ stack[1].at = "series"
    /\ \/ stack[1].x = FromInt(1000) /\ stack[1].k = 7
       \/ stack[1].x = FDivInt(FOne, 8) /\ stack[1].k = -2

\* C10: entry 5 calls deciPow when hasDecimal(exponent) and power with
\* (int)exponent otherwise, and every exponent power is called with is a
\* whole number that is not negative.
PowerDispatch ==
    /\ (mpc = "call" /\ choice = 5 /\ stack # <<>>) =>
          /\ hasDecimal(num2) => stack[1].fn = "deciPow"
          /\ ~hasDecimal(num2) =>
                /\ stack[1].fn = "power" /\ stack[1].x = num1
                /\ stack[1].y = FromInt(ToInt(num2))
    /\ \A i \in 1..Len(stack) :
          stack[i].fn = "power" =>
              /\ ~stack[i].y.neg
              /\ stack[i].y = FromInt(ToInt(stack[i].y))

\* 2 to the power 2 is handled: power has multiplied twice
PowerDispatchReached ==
    /\ mpc = "handled" /\ choice = 5
    /\ num1 = FromInt(2) /\ num2 = FromInt(2)
    /\ shown = FromInt(4)
    /\ log = <<[fn |-> "power", x |-> FromInt(2), y |-> FromInt(2),
                val |-> FromInt(4), msg |-> "", iters |-> 2, sub |-> 0]>>

==========================================================================
